---- MODULE Spec2Model ----
(***************************************************************************)
(* Model of notebooks/models_training_and_evaluation.ipynb of the          *)
(* hotels-booking-study repository: the metric computation, the stratified *)
(* train/validation/test split, the threshold sweep and the top-to-bottom  *)
(* run of the notebook's cells.                                            *)
(*                                                                         *)
(* Probabilities and thresholds are integers in percent (0.05 is 5, 0.5 is *)
(* 50).  A metric value is an exact fraction <<numerator, denominator>> in *)
(* lowest terms; 0 is <<0, 1>>.  A label vector is a function from row ids *)
(* to {0, 1}; a partition's X is the set of its row ids.                   *)
(***************************************************************************)
EXTENDS Integers, Sequences, FiniteSets, TLC

\* ---------------------------------------------------------------- bounds
\* Largest number of rows of a dataset drawn as an input of the split or of
\* the metric computation.
MaxRows == 6
\* Largest number of rows of the data drawn as an input of a sweep.
MaxSweepRows == 2
\* Longest threshold grid drawn as an input of a sweep.
MaxGridLen == 2
\* Largest number of raw booking records given to the feature engineering.
MaxBookings == 2

\* ------------------------------------------------------ program constants
\* The three partitions returned by split_data_train_val_test.
NumPartitions == 3
\* best_threshold = 0.5, and in the calls threshold=0.5 (percent).
DefaultThreshold == 50
\* np.arange(0.0, 1.05, 0.05): 21 thresholds, step 0.05.
GridStep == 5
GridSize == 21
\* RANDOM_SEED = 101
RANDOM_SEED == 101

Labels == {0, 1}
MetricNames == {"precision", "recall", "f1_score", "accuracy"}
\* Probabilities a fitted classifier may give a row, and thresholds a caller
\* may pass: values on, between and at the ends of the default grid.
ProbaLevels == {0, 35, 100}
ThresholdInputs == {0, 30, 50, 100}

\* ------------------------------------------------------------------ state
VARIABLES
    pc,                 \* the cell the run is at
    loop_i,             \* position in the loop (or the series of cells) at pc
    processed_df,       \* the label column of the processed dataset, by row id
    X_train, X_val, X_test,     \* the row ids of the three partitions
    y_train, y_val, y_test,     \* their label vectors
    default_models,     \* model name -> classifier
    fine_tuned_models,  \* model name -> classifier
    models_training_results,    \* list of metrics records
    baseline_records,   \* always_ones_train, always_zeros_train, always_ones_val, always_zeros_val
    best_threshold, metric_values,      \* assigned by the sweep cells
    customized_threshold_results,
    customized_threshold_results_test,
    default_threshold_results_test,
    split_calls,        \* history: calls of split_data_train_val_test
    fit_log,            \* history: the data each train_model call fitted on
    sweep_log,          \* history: the calls of find_best_threshold
    params_log,         \* history: the calls of evaluate_model_with_threshold_params
    args, ret,          \* a single call of a function: its arguments, its results
    frame,              \* the locals of that call while it runs
    eval_log,           \* history: the thresholds the call evaluated the model at
    stdout,             \* the lines the call printed
    thresholds_default, \* the array bound to find_best_threshold's thresholds parameter at its def
    np_random,          \* numpy's global generator: its seed and the draws made since
    random_stream,      \* what the library's generators yield when seeded with RANDOM_SEED
    first_run           \* the partitions, models and records of an earlier run of the notebook

partitions == <<X_train, X_val, X_test, y_train, y_val, y_test>>
models == <<default_models, fine_tuned_models>>
results == <<models_training_results, baseline_records, best_threshold, metric_values, customized_threshold_results, customized_threshold_results_test, default_threshold_results_test>>
history == <<split_calls, fit_log, sweep_log, params_log>>
call == <<args, ret, frame, eval_log, stdout>>
session == <<thresholds_default, np_random, random_stream, first_run>>
vars == <<pc, loop_i, processed_df, partitions, models, results, history, call, session>>

\* ------------------------------------------------------------- fractions
RECURSIVE GCD(_, _)
GCD(a, b) == IF b = 0 THEN a ELSE GCD(b, a % b)

\* n / d with zero_division=0: 0 when the denominator is 0.
Divide(n, d) ==
    IF d = 0 \/ n = 0 THEN <<0, 1>>
    ELSE LET g == GCD(n, d) IN <<n \div g, d \div g>>

\* a > b on fractions with positive denominators.
Greater(a, b) == a[1] * b[2] > b[1] * a[2]
GreaterEq(a, b) == a[1] * b[2] >= b[1] * a[2]
Zero == <<0, 1>>

\* --------------------------------------------------------------- metrics
Count(S) == Cardinality(S)

\* sklearn's precision_score, recall_score, f1_score (zero_division=0) and
\* accuracy_score on binary vectors: tp_sum, pred_sum and true_sum are the
\* counts precision_recall_fscore_support takes from the vectors.
tp_sum(y, y_pred) == Count({r \in DOMAIN y : y[r] = 1 /\ y_pred[r] = 1})
pred_sum(y_pred) == Count({r \in DOMAIN y_pred : y_pred[r] = 1})
true_sum(y) == Count({r \in DOMAIN y : y[r] = 1})

precision_score_swapped(y, y_pred) == Divide(tp_sum(y, y_pred), true_sum(y))
precision_score(y, y_pred) == Divide(tp_sum(y, y_pred), pred_sum(y_pred))
recall_score_swapped(y, y_pred) == Divide(tp_sum(y, y_pred), pred_sum(y_pred))
recall_score(y, y_pred) == Divide(tp_sum(y, y_pred), true_sum(y))
f1_score(y, y_pred) ==
    Divide(2 * tp_sum(y, y_pred), true_sum(y) + pred_sum(y_pred))
accuracy_score(y, y_pred) ==
    Divide(Count({r \in DOMAIN y : y[r] = y_pred[r]}), Count(DOMAIN y))

evaluate_model_metrics(y, y_pred) ==
    [precision |-> precision_score(y, y_pred),
     recall    |-> recall_score(y, y_pred),
     f1_score  |-> f1_score(y, y_pred),
     accuracy  |-> accuracy_score(y, y_pred)]

\* metrics[metric]
MetricOf(metrics, metric) ==
    CASE metric = "precision" -> metrics.precision
      [] metric = "recall"    -> metrics.recall
      [] metric = "f1_score"  -> metrics.f1_score
      [] metric = "accuracy"  -> metrics.accuracy

\* np.ones_like(y), np.zeros_like(y): a new vector, y itself is not changed.
ones_like(y) == [r \in DOMAIN y |-> 1]
zeros_like(y) == [r \in DOMAIN y |-> 0]

\* ------------------------------------------------------------------ split
\* The number of positives among k rows drawn stratified from P positives and
\* Q negatives: the proportional share of each class rounded down, and the
\* row still missing given to the class with the larger remainder (either
\* class when the remainders tie).
ApproximateModeAnyCount(P, Q, k) == {p \in 0..k : p <= P /\ k - p <= Q}
ApproximateMode(P, Q, k) ==
    LET T    == P + Q
        fp   == (P * k) \div T
        fq   == (Q * k) \div T
        rp   == (P * k) % T
        rq   == (Q * k) % T
        need == k - fp - fq
    IN  IF need = 0 THEN {fp}
        ELSE IF rp > rq THEN {fp + 1}
        ELSE IF rq > rp THEN {fp}
        ELSE {fp, fp + 1}

Positives(y, S) == {r \in S : y[r] = 1}

\* The subsets of k rows a stratified shuffle may draw from rows.
StratifiedDraw(y, rows, k) ==
    LET P == Count(Positives(y, rows))
        Q == Count(rows) - P
    IN  {S \in SUBSET rows :
            /\ Count(S) = k
            /\ Count(Positives(y, S)) \in ApproximateMode(P, Q, k)}

\* The rows the second stage divides into train and validation.
RestAfterTestKeepsTest(rows, test) == rows
RestAfterTest(rows, test) == rows \ test

\* split_data_train_val_test(processed_df, random_state): the test rows are
\* held out first, the rest is divided into train and validation; both
\* stages stratify on the label.  The sizes and the shuffle are inputs.
split_data_train_val_test(df) ==
    LET rows == DOMAIN df
        n    == Count(rows)
    IN  UNION { UNION {
            LET rest == RestAfterTest(rows, test)
            IN  { [train |-> train, val |-> rest \ train, test |-> test] :
                    train \in UNION { StratifiedDraw(df, rest, n_train) :
                                        n_train \in 1..(Count(rest) - 1) } }
            : test \in { rows \ keep : keep \in StratifiedDraw(df, rows, n - n_test) } }
          : n_test \in 1..(n - 2) }

\* y restricted to the rows of a partition.
LabelsOf(df, X) == [r \in X |-> df[r]]

\* ------------------------------------------------------------ classifiers
\* A classifier as constructed: not fitted, no probabilities.
Unfitted == [fitted |-> FALSE, proba |-> <<>>]

\* The fitted classifiers a fit may produce: each scores every row of the
\* dataset with a probability; rows up to the split point fall in the low
\* leaf, the others in the high leaf.
Classifiers(rows) ==
    { [fitted |-> TRUE, proba |-> [r \in rows |-> IF r <= cut THEN 35 ELSE 100]] :
        cut \in {0, 1} }

\* (proba > threshold).astype(int) on the rows of X.
PredictWithThreshold(model, X, threshold) ==
    [r \in X |-> IF model.proba[r] > threshold THEN 1 ELSE 0]

evaluate_model_with_threshold(model, X, y, threshold) ==
    evaluate_model_metrics(y, PredictWithThreshold(model, X, threshold))

\* train_model's summaries: the metrics of clf.predict on (X, y).
evaluate_model(model, X, y) ==
    evaluate_model_with_threshold(model, X, y, DefaultThreshold)

\* --------------------------------------------------------- threshold sweep
\* np.arange(0.0, 1.05, 0.05)
DefaultGrid == [i \in 1..GridSize |-> (i - 1) * GridStep]

\* The state of the loop of find_best_threshold before its first iteration.
SweepStartAtZero ==
    [best_threshold    |-> 0,
     best_metric_value |-> Zero,
     metric_values     |-> <<>>]
SweepStart ==
    [best_threshold    |-> DefaultThreshold,
     best_metric_value |-> Zero,
     metric_values     |-> <<>>]

\* One iteration of the loop, at threshold, from loop state s.
SweepStepKeepsScore(model, X, y, metric, threshold, s) ==
    LET metrics      == evaluate_model_with_threshold(model, X, y, threshold)
        metric_value == MetricOf(metrics, metric)
    IN  [best_threshold    |-> IF Greater(metric_value, s.best_metric_value)
                               THEN threshold ELSE s.best_threshold,
         best_metric_value |-> s.best_metric_value,
         metric_values     |-> Append(s.metric_values, <<threshold, metric_value>>)]
SweepStepRecordsImprovements(model, X, y, metric, threshold, s) ==
    LET metrics      == evaluate_model_with_threshold(model, X, y, threshold)
        metric_value == MetricOf(metrics, metric)
        better       == Greater(metric_value, s.best_metric_value)
    IN  [best_threshold    |-> IF better THEN threshold ELSE s.best_threshold,
         best_metric_value |-> IF better THEN metric_value ELSE s.best_metric_value,
         metric_values     |-> IF better
                               THEN Append(s.metric_values, <<threshold, metric_value>>)
                               ELSE s.metric_values]
SweepStepTakesTies(model, X, y, metric, threshold, s) ==
    LET metrics      == evaluate_model_with_threshold(model, X, y, threshold)
        metric_value == MetricOf(metrics, metric)
        better       == GreaterEq(metric_value, s.best_metric_value)
    IN  [best_threshold    |-> IF better THEN threshold ELSE s.best_threshold,
         best_metric_value |-> IF better THEN metric_value ELSE s.best_metric_value,
         metric_values     |-> Append(s.metric_values, <<threshold, metric_value>>)]
SweepStep(model, X, y, metric, threshold, s) ==
    LET metrics      == evaluate_model_with_threshold(model, X, y, threshold)
        metric_value == MetricOf(metrics, metric)
        better       == Greater(metric_value, s.best_metric_value)
    IN  [best_threshold    |-> IF better THEN threshold ELSE s.best_threshold,
         best_metric_value |-> IF better THEN metric_value ELSE s.best_metric_value,
         metric_values     |-> Append(s.metric_values, <<threshold, metric_value>>)]

\* The loop of find_best_threshold from position i of the grid on.
RECURSIVE SweepFrom(_, _, _, _, _, _, _)
SweepFrom(model, X, y, metric, thresholds, i, s) ==
    IF i > Len(thresholds)
    THEN s
    ELSE SweepFrom(model, X, y, metric, thresholds, i + 1,
                   SweepStep(model, X, y, metric, thresholds[i], s))

\* find_best_threshold: best_threshold and metric_values are returned,
\* best_metric_value is printed.
find_best_threshold(model, X, y, metric, thresholds) ==
    SweepFrom(model, X, y, metric, thresholds, 1, SweepStart)

\* threshold=None, and a threshold given.
None == <<>>
Some(t) == <<t>>

\* `not threshold`: true of None and of 0.
Falsy(threshold) == threshold = None \/ threshold = Some(0)

\* evaluate_model_with_threshold_params: the record returned, with the
\* threshold it was evaluated at, whether a sweep chose it, and what the
\* sweep found.  The sweep is called without thresholds: it runs over the
\* array bound to the parameter when find_best_threshold was defined, the
\* variable thresholds_default of the state.
evaluate_model_with_threshold_params(model_name, model, X, y, training_split, metric, threshold) ==
    LET swept == Falsy(threshold)
        sweep == find_best_threshold(model, X, y, metric, thresholds_default)
        used  == IF swept THEN sweep.best_threshold ELSE threshold[1]
        metrics == evaluate_model_with_threshold(model, X, y, used)
    IN  [record |-> [precision  |-> metrics.precision,
                     recall     |-> metrics.recall,
                     f1_score   |-> metrics.f1_score,
                     accuracy   |-> metrics.accuracy,
                     model_name |-> model_name,
                     split      |-> training_split],
         threshold |-> used,
         swept     |-> swept,
         sweep     |-> IF swept THEN <<sweep>> ELSE <<>>]

\* The keys of the two dictionaries, in insertion order.
DefaultModelNames == <<"decision_tree_default", "random_forest_default", "gdbt_default">>
FineTunedModelNames == <<"decision_tree_pruned", "random_forest_pruned", "decision_tree_pruned_ccp">>
Range(seq) == {seq[i] : i \in DOMAIN seq}

\* The models of the six sweep cells, in cell order, and of the three lists
\* of evaluate_model_with_threshold_params calls.
SweepOrder == <<"decision_tree_pruned", "decision_tree_pruned_ccp", "random_forest_pruned", "gdbt_default", "random_forest_default", "decision_tree_default">>
ParamsOrder == <<"decision_tree_pruned", "decision_tree_pruned_ccp", "random_forest_pruned", "gdbt_default">>

\* fine_tuned_models[name] or default_models[name], as the cells index them.
ModelOf(name) ==
    IF name \in Range(FineTunedModelNames) THEN fine_tuned_models[name]
    ELSE default_models[name]

\* The partition a pair (X, y) passed to a call is.
PartitionName(X, y) ==
    IF X = X_train /\ y = y_train THEN "training"
    ELSE IF X = X_val /\ y = y_val THEN "validation"
    ELSE IF X = X_test /\ y = y_test THEN "test"
    ELSE "other"

\* np.random.seed(seed): the global generator restarts its stream.
SeededByClock(seed) == [seed |-> seed + 1, draws |-> 0]
Seeded(seed) == [seed |-> seed, draws |-> 0]
\* The global generator after one more estimator drew its random state from it.
Drawn(generator) == [generator EXCEPT !.draws = @ + 1]

\* The number of classifiers the run fits.
NumFits == Len(DefaultModelNames) + Len(FineTunedModelNames)

\* What the generators seeded with RANDOM_SEED may yield on a dataset: the
\* split the shuffle of split_data_train_val_test makes, and the classifier
\* a fit produces at each draw of the global generator.  The library fixes
\* them for the seed; every possibility is an input here.
RandomStreams(df) ==
    [fixed       : {TRUE},
     permutation : split_data_train_val_test(df),
     fits        : [1..NumFits -> Classifiers(DOMAIN df)]]
\* The stream is left open: a single call is studied for every outcome the
\* generators may yield.
NoStream == [fixed |-> FALSE, permutation |-> <<>>, fits |-> <<>>]

\* The state of a session in which no cell after the seed cell has run yet.
Fresh ==
    /\ loop_i = 0
    /\ X_train = {} /\ X_val = {} /\ X_test = {}
    /\ y_train = <<>> /\ y_val = <<>> /\ y_test = <<>>
    /\ default_models = [m \in Range(DefaultModelNames) |-> Unfitted]
    /\ fine_tuned_models = [m \in Range(FineTunedModelNames) |-> Unfitted]
    /\ models_training_results = <<>>
    /\ baseline_records = <<>>
    /\ best_threshold = None /\ metric_values = <<>>
    /\ customized_threshold_results = <<>>
    /\ customized_threshold_results_test = <<>>
    /\ default_threshold_results_test = <<>>
    /\ split_calls = 0
    /\ fit_log = <<>> /\ sweep_log = <<>> /\ params_log = <<>>
    /\ frame = <<>> /\ eval_log = <<>> /\ stdout = <<>>
    /\ thresholds_default = DefaultGrid
    /\ np_random = Seeded(RANDOM_SEED)

\* The state every specification starts from, but for pc and the inputs.
Idle == Fresh /\ first_run = <<>>

\* A notebook run: the dataset is loaded and processed, the split is next.
Init ==
    /\ pc = "split"
    /\ processed_df \in [1..NumPartitions -> Labels]
    /\ random_stream \in RandomStreams(processed_df)
    /\ args = <<>> /\ ret = <<>>
    /\ Idle

\* ---------------------------------------------------------------- the run
\* A metrics dictionary with its model_name and split keys set.
Record(metrics, model_name, split) ==
    [precision  |-> metrics.precision,
     recall     |-> metrics.recall,
     f1_score   |-> metrics.f1_score,
     accuracy   |-> metrics.accuracy,
     model_name |-> model_name,
     split      |-> split]

\* clf.fit(X, y): the classifier is replaced by a fitted one.  The
\* classifiers are constructed without random_state, so the fit draws from
\* the global generator: seeded with RANDOM_SEED it yields the stream of
\* that seed, seeded otherwise any other.
Fit(clf, X, y) ==
    IF np_random.seed = RANDOM_SEED
    THEN {random_stream.fits[np_random.draws + 1]}
    ELSE Classifiers(DOMAIN processed_df)

\* train_model(clf, X_train, y_train, X_val, y_val): fits clf on the first
\* pair and returns it with the metrics of its predictions on both pairs.
train_model(clf, Xt, yt, Xv, yv) ==
    { [model         |-> fitted,
       fitted_on     |-> [X |-> Xt, y |-> yt],
       train_metrics |-> evaluate_model(fitted, Xt, yt),
       val_metrics   |-> evaluate_model(fitted, Xv, yv)] : fitted \in Fit(clf, Xt, yt) }

\* X_train, ..., y_test = split_data_train_val_test(processed_df, random_state=RANDOM_SEED)
SplitCell ==
    /\ pc = "split"
    /\ \E parts \in split_data_train_val_test(processed_df) :
        /\ random_stream.fixed => parts = random_stream.permutation
        /\ X_train' = parts.train
        /\ X_val' = parts.val
        /\ X_test' = parts.test
        /\ y_train' = LabelsOf(processed_df, parts.train)
        /\ y_val' = LabelsOf(processed_df, parts.val)
        /\ y_test' = LabelsOf(processed_df, parts.test)
    /\ split_calls' = split_calls + 1
    /\ pc' = "init_results"
    /\ UNCHANGED <<loop_i, processed_df, models, results, fit_log, sweep_log, params_log, call, session>>

\* models_training_results = []
InitResultsCell ==
    /\ pc = "init_results"
    /\ models_training_results' = <<>>
    /\ pc' = "train_default"
    /\ loop_i' = 1
    /\ UNCHANGED <<processed_df, partitions, models, baseline_records, best_threshold, metric_values, customized_threshold_results, customized_threshold_results_test, default_threshold_results_test, history, call, session>>

\* One iteration of a training loop, for the model called name: the records
\* appended and the entry of the fit history.
TrainingRecords(name, out) ==
    <<Record(out.val_metrics, name, "validation"), Record(out.train_metrics, name, "training")>>
FitEntry(name, out) ==
    [model_name |-> name, X |-> out.fitted_on.X, y |-> out.fitted_on.y]

\* for model_name, clf in default_models.items(): one iteration.
TrainDefaultOnAllData ==
    /\ pc = "train_default"
    /\ LET name == DefaultModelNames[loop_i]
       IN  \E out \in train_model(default_models[name], X_train \cup X_val, LabelsOf(processed_df, X_train \cup X_val), X_val, y_val) :
            /\ default_models' = [default_models EXCEPT ![name] = out.model]
            /\ models_training_results' = models_training_results \o TrainingRecords(name, out)
            /\ fit_log' = Append(fit_log, FitEntry(name, out))
            /\ np_random' = Drawn(np_random)
    /\ IF loop_i < Len(DefaultModelNames)
       THEN pc' = pc /\ loop_i' = loop_i + 1
       ELSE pc' = "baselines" /\ loop_i' = 0
    /\ UNCHANGED <<processed_df, partitions, fine_tuned_models, baseline_records, best_threshold, metric_values, customized_threshold_results, customized_threshold_results_test, default_threshold_results_test, split_calls, sweep_log, params_log, call, thresholds_default, random_stream, first_run>>
TrainDefault ==
    /\ pc = "train_default"
    /\ LET name == DefaultModelNames[loop_i]
       IN  \E out \in train_model(default_models[name], X_train, y_train, X_val, y_val) :
            /\ default_models' = [default_models EXCEPT ![name] = out.model]
            /\ models_training_results' = models_training_results \o TrainingRecords(name, out)
            /\ fit_log' = Append(fit_log, FitEntry(name, out))
            /\ np_random' = Drawn(np_random)
    /\ IF loop_i < Len(DefaultModelNames)
       THEN pc' = pc /\ loop_i' = loop_i + 1
       ELSE pc' = "baselines" /\ loop_i' = 0
    /\ UNCHANGED <<processed_df, partitions, fine_tuned_models, baseline_records, best_threshold, metric_values, customized_threshold_results, customized_threshold_results_test, default_threshold_results_test, split_calls, sweep_log, params_log, call, thresholds_default, random_stream, first_run>>

\* always_ones_train, always_zeros_train, always_ones_val, always_zeros_val
BaselinesCellInPlace ==
    /\ pc = "baselines"
    /\ baseline_records' =
        << Record(evaluate_model_metrics(y_train, ones_like(y_train)), "always_ones", "training"),
           Record(evaluate_model_metrics(y_train, zeros_like(y_train)), "always_zeros", "training"),
           Record(evaluate_model_metrics(y_val, ones_like(y_val)), "always_ones", "validation"),
           Record(evaluate_model_metrics(y_val, zeros_like(y_val)), "always_zeros", "validation") >>
    /\ y_train' = zeros_like(y_train)
    /\ y_val' = zeros_like(y_val)
    /\ pc' = "extend_baselines"
    /\ UNCHANGED <<loop_i, processed_df, X_train, X_val, X_test, y_test, models, models_training_results, best_threshold, metric_values, customized_threshold_results, customized_threshold_results_test, default_threshold_results_test, history, call, session>>
BaselinesCell ==
    /\ pc = "baselines"
    /\ baseline_records' =
        << Record(evaluate_model_metrics(y_train, ones_like(y_train)), "always_ones", "training"),
           Record(evaluate_model_metrics(y_train, zeros_like(y_train)), "always_zeros", "training"),
           Record(evaluate_model_metrics(y_val, ones_like(y_val)), "always_ones", "validation"),
           Record(evaluate_model_metrics(y_val, zeros_like(y_val)), "always_zeros", "validation") >>
    /\ pc' = "extend_baselines"
    /\ UNCHANGED <<loop_i, processed_df, partitions, models, models_training_results, best_threshold, metric_values, customized_threshold_results, customized_threshold_results_test, default_threshold_results_test, history, call, session>>

\* models_training_results.extend([...the four baseline records...])
ExtendBaselinesCellAssigns ==
    /\ pc = "extend_baselines"
    /\ models_training_results' = baseline_records
    /\ pc' = "train_fine_tuned"
    /\ loop_i' = 1
    /\ UNCHANGED <<processed_df, partitions, models, baseline_records, best_threshold, metric_values, customized_threshold_results, customized_threshold_results_test, default_threshold_results_test, history, call, session>>
ExtendBaselinesCell ==
    /\ pc = "extend_baselines"
    /\ models_training_results' = models_training_results \o baseline_records
    /\ pc' = "train_fine_tuned"
    /\ loop_i' = 1
    /\ UNCHANGED <<processed_df, partitions, models, baseline_records, best_threshold, metric_values, customized_threshold_results, customized_threshold_results_test, default_threshold_results_test, history, call, session>>

\* for model_name, clf in fine_tuned_models.items(): one iteration.
TrainFineTunedSkipsFit ==
    /\ pc = "train_fine_tuned"
    /\ IF loop_i < Len(FineTunedModelNames)
       THEN pc' = pc /\ loop_i' = loop_i + 1
       ELSE pc' = "sweep" /\ loop_i' = 1
    /\ UNCHANGED <<processed_df, partitions, models, results, history, call, session>>
TrainFineTuned ==
    /\ pc = "train_fine_tuned"
    /\ LET name == FineTunedModelNames[loop_i]
       IN  \E out \in train_model(fine_tuned_models[name], X_train, y_train, X_val, y_val) :
            /\ fine_tuned_models' = [fine_tuned_models EXCEPT ![name] = out.model]
            /\ models_training_results' = models_training_results \o TrainingRecords(name, out)
            /\ fit_log' = Append(fit_log, FitEntry(name, out))
            /\ np_random' = Drawn(np_random)
    /\ IF loop_i < Len(FineTunedModelNames)
       THEN pc' = pc /\ loop_i' = loop_i + 1
       ELSE pc' = "sweep" /\ loop_i' = 1
    /\ UNCHANGED <<processed_df, partitions, default_models, baseline_records, best_threshold, metric_values, customized_threshold_results, customized_threshold_results_test, default_threshold_results_test, split_calls, sweep_log, params_log, call, thresholds_default, random_stream, first_run>>

\* An entry of the sweep history: a call find_best_threshold(model, X, y,
\* metric), its thresholds parameter left at the default, that returned r.
SweepEntry(name, X, y, metric, r) ==
    [model_name |-> name, part |-> PartitionName(X, y), metric |-> metric,
     thresholds |-> thresholds_default,
     fitted |-> TRUE, best_threshold |-> Some(r.best_threshold),
     best_metric_value |-> r.best_metric_value]
\* The call raised: the classifier is not fitted.
SweepRaised(name, X, y, metric) ==
    [model_name |-> name, part |-> PartitionName(X, y), metric |-> metric,
     thresholds |-> thresholds_default,
     fitted |-> FALSE, best_threshold |-> None, best_metric_value |-> Zero]

\* best_threshold, metric_values = find_best_threshold(<model>, X_val, y_val, metric="recall")
\* (six cells, one model each)
SweepCellRefits ==
    /\ pc = "sweep"
    /\ LET name  == SweepOrder[loop_i]
           r     == find_best_threshold(ModelOf(name), X_val, y_val, "recall", thresholds_default)
       IN  /\ sweep_log' = Append(sweep_log, SweepEntry(name, X_val, y_val, "recall", r))
           /\ best_threshold' = Some(r.best_threshold)
           /\ metric_values' = r.metric_values
           /\ \E other \in Classifiers(DOMAIN processed_df) :
                IF name \in Range(FineTunedModelNames)
                THEN /\ fine_tuned_models' = [fine_tuned_models EXCEPT ![name] = other]
                     /\ UNCHANGED default_models
                ELSE /\ default_models' = [default_models EXCEPT ![name] = other]
                     /\ UNCHANGED fine_tuned_models
    /\ IF loop_i < Len(SweepOrder)
       THEN pc' = pc /\ loop_i' = loop_i + 1
       ELSE pc' = "customized_val" /\ loop_i' = 0
    /\ UNCHANGED <<processed_df, partitions, models_training_results, baseline_records, customized_threshold_results, customized_threshold_results_test, default_threshold_results_test, split_calls, fit_log, params_log, call, session>>
SweepCellTrimsGrid ==
    /\ pc = "sweep"
    /\ LET name  == SweepOrder[loop_i]
           model == ModelOf(name)
           r     == find_best_threshold(model, X_val, y_val, "recall", thresholds_default)
       IN  IF model.fitted
           THEN /\ sweep_log' = Append(sweep_log, SweepEntry(name, X_val, y_val, "recall", r))
                /\ best_threshold' = Some(r.best_threshold)
                /\ metric_values' = r.metric_values
                /\ IF loop_i < Len(SweepOrder)
                   THEN pc' = pc /\ loop_i' = loop_i + 1
                   ELSE pc' = "customized_val" /\ loop_i' = 0
           ELSE /\ sweep_log' = Append(sweep_log, SweepRaised(name, X_val, y_val, "recall"))
                /\ pc' = "error"
                /\ UNCHANGED <<loop_i, best_threshold, metric_values>>
    /\ thresholds_default' = Tail(thresholds_default)
    /\ UNCHANGED <<processed_df, partitions, models, models_training_results, baseline_records, customized_threshold_results, customized_threshold_results_test, default_threshold_results_test, split_calls, fit_log, params_log, call, np_random, random_stream, first_run>>
SweepCell ==
    /\ pc = "sweep"
    /\ LET name  == SweepOrder[loop_i]
           model == ModelOf(name)
           r     == find_best_threshold(model, X_val, y_val, "recall", thresholds_default)
       IN  IF model.fitted
           THEN /\ sweep_log' = Append(sweep_log, SweepEntry(name, X_val, y_val, "recall", r))
                /\ best_threshold' = Some(r.best_threshold)
                /\ metric_values' = r.metric_values
                /\ IF loop_i < Len(SweepOrder)
                   THEN pc' = pc /\ loop_i' = loop_i + 1
                   ELSE pc' = "customized_val" /\ loop_i' = 0
           ELSE /\ sweep_log' = Append(sweep_log, SweepRaised(name, X_val, y_val, "recall"))
                /\ pc' = "error"
                /\ UNCHANGED <<loop_i, best_threshold, metric_values>>
    /\ UNCHANGED <<processed_df, partitions, models, models_training_results, baseline_records, customized_threshold_results, customized_threshold_results_test, default_threshold_results_test, split_calls, fit_log, params_log, call, session>>

\* An entry of the history of evaluate_model_with_threshold_params calls:
\* the call with model_name, the model, X, y and threshold given, the other
\* parameters at their defaults.
ParamsCall(name, X, y, threshold) ==
    LET model == ModelOf(name)
        out   == evaluate_model_with_threshold_params(name, model, X, y, "default", "recall", threshold)
    IN  IF model.fitted
        THEN [model_name |-> name, part |-> PartitionName(X, y), threshold_arg |-> threshold,
              fitted |-> TRUE, swept |-> out.swept, threshold |-> Some(out.threshold),
              record |-> <<out.record>>,
              sweep |-> IF out.swept
                        THEN <<SweepEntry(name, X, y, "recall", out.sweep[1])>>
                        ELSE <<>>]
        ELSE [model_name |-> name, part |-> PartitionName(X, y), threshold_arg |-> threshold,
              fitted |-> FALSE, swept |-> Falsy(threshold), threshold |-> None,
              record |-> <<>>,
              sweep |-> IF Falsy(threshold)
                        THEN <<SweepRaised(name, X, y, "recall")>>
                        ELSE <<>>]

\* The four calls of one list, in order, then the sweeps they made.
ParamsCalls(X, y, threshold) ==
    [i \in 1..Len(ParamsOrder) |-> ParamsCall(ParamsOrder[i], X, y, threshold)]
RECURSIVE SweepsOf(_)
SweepsOf(calls) ==
    IF calls = <<>> THEN <<>> ELSE Head(calls).sweep \o SweepsOf(Tail(calls))
AllFitted(calls) == \A i \in DOMAIN calls : calls[i].fitted
RecordsOf(calls) == [i \in DOMAIN calls |-> calls[i].record[1]]

\* customized_threshold_results = [evaluate_model_with_threshold_params(<name>, <model>, X_val, y_val), ...]
CustomizedValCell ==
    /\ pc = "customized_val"
    /\ LET calls == ParamsCalls(X_val, y_val, None)
       IN  /\ params_log' = params_log \o calls
           /\ sweep_log' = sweep_log \o SweepsOf(calls)
           /\ IF AllFitted(calls)
              THEN /\ customized_threshold_results' = RecordsOf(calls)
                   /\ pc' = "customized_test"
              ELSE /\ pc' = "error"
                   /\ UNCHANGED customized_threshold_results
    /\ UNCHANGED <<loop_i, processed_df, partitions, models, models_training_results, baseline_records, best_threshold, metric_values, customized_threshold_results_test, default_threshold_results_test, split_calls, fit_log, call, session>>

\* customized_threshold_results_test = [evaluate_model_with_threshold_params(<name>, <model>, X_test, y_test), ...]
CustomizedTestCell ==
    /\ pc = "customized_test"
    /\ LET calls == ParamsCalls(X_test, y_test, None)
       IN  /\ params_log' = params_log \o calls
           /\ sweep_log' = sweep_log \o SweepsOf(calls)
           /\ IF AllFitted(calls)
              THEN /\ customized_threshold_results_test' = RecordsOf(calls)
                   /\ pc' = "default_test"
              ELSE /\ pc' = "error"
                   /\ UNCHANGED customized_threshold_results_test
    /\ UNCHANGED <<loop_i, processed_df, partitions, models, models_training_results, baseline_records, best_threshold, metric_values, customized_threshold_results, default_threshold_results_test, split_calls, fit_log, call, session>>

\* default_threshold_results_test = [evaluate_model_with_threshold_params(<name>, <model>, X_test, y_test, threshold=0.5), ...]
DefaultTestCell ==
    /\ pc = "default_test"
    /\ LET calls == ParamsCalls(X_test, y_test, Some(DefaultThreshold))
       IN  /\ params_log' = params_log \o calls
           /\ sweep_log' = sweep_log \o SweepsOf(calls)
           /\ IF AllFitted(calls)
              THEN /\ default_threshold_results_test' = RecordsOf(calls)
                   /\ pc' = "feature_importances"
              ELSE /\ pc' = "error"
                   /\ UNCHANGED default_threshold_results_test
    /\ UNCHANGED <<loop_i, processed_df, partitions, models, models_training_results, baseline_records, best_threshold, metric_values, customized_threshold_results, customized_threshold_results_test, split_calls, fit_log, call, session>>

\* The cells listing feature_importances_ of two fitted models: they read
\* the models and print.
FeatureImportancesCell ==
    /\ pc = "feature_importances"
    /\ pc' = "done"
    /\ UNCHANGED <<loop_i, processed_df, partitions, models, results, history, call, session>>

Next ==
    \/ SplitCell
    \/ InitResultsCell
    \/ TrainDefault
    \/ BaselinesCell
    \/ ExtendBaselinesCell
    \/ TrainFineTuned
    \/ SweepCell
    \/ CustomizedValCell
    \/ CustomizedTestCell
    \/ DefaultTestCell
    \/ FeatureImportancesCell

Spec == Init /\ [][Next]_vars

\* ------------------------------------------------ the notebook run twice
\* What a finished run leaves: the partitions, the fitted models, the records.
Outcome == [partitions |-> partitions, models |-> models, results |-> results]

\* Restart the kernel and run all cells again, on the same CSV with the same
\* library: the session is fresh, the seed cell seeds the generator again.
\* The outcome of the finished run is kept aside.
RestartAndRunAll ==
    /\ pc = "done"
    /\ first_run = <<>>
    /\ first_run' = <<Outcome>>
    /\ pc' = "split"
    /\ loop_i' = 0
    /\ X_train' = {} /\ X_val' = {} /\ X_test' = {}
    /\ y_train' = <<>> /\ y_val' = <<>> /\ y_test' = <<>>
    /\ default_models' = [m \in Range(DefaultModelNames) |-> Unfitted]
    /\ fine_tuned_models' = [m \in Range(FineTunedModelNames) |-> Unfitted]
    /\ models_training_results' = <<>>
    /\ baseline_records' = <<>>
    /\ best_threshold' = None /\ metric_values' = <<>>
    /\ customized_threshold_results' = <<>>
    /\ customized_threshold_results_test' = <<>>
    /\ default_threshold_results_test' = <<>>
    /\ split_calls' = 0
    /\ fit_log' = <<>> /\ sweep_log' = <<>> /\ params_log' = <<>>
    /\ thresholds_default' = DefaultGrid
    /\ np_random' = Seeded(RANDOM_SEED)
    /\ UNCHANGED <<processed_df, random_stream, call>>

SpecRerun == Init /\ [][Next \/ RestartAndRunAll]_vars

\* ------------------------------------------------- single calls of a function
\* The threshold grids a caller may pass: the default grid, and every list
\* of up to MaxGridLen thresholds, in any order, repeats included.
GridInputs ==
    {DefaultGrid} \cup UNION { [1..len -> ThresholdInputs] : len \in 0..MaxGridLen }

\* The fitted classifiers and label vectors over the rows 1..n.
ModelInputs(n) == { [fitted |-> TRUE, proba |-> p] : p \in [1..n -> ProbaLevels] }

\* find_best_threshold(model, X, y, metric, thresholds) is about to be called.
InitSweep ==
    /\ pc = "find_best_threshold"
    /\ processed_df = <<>>
    /\ random_stream = NoStream
    /\ \E n \in 1..MaxSweepRows :
        args \in [model : ModelInputs(n), X : {1..n}, y : [1..n -> Labels],
                  metric : MetricNames, thresholds : GridInputs]
    /\ ret = <<>>
    /\ Idle

FindBestThresholdCall ==
    /\ pc = "find_best_threshold"
    /\ ret' = <<find_best_threshold(args.model, args.X, args.y, args.metric, args.thresholds)>>
    /\ pc' = "returned"
    /\ UNCHANGED <<loop_i, processed_df, partitions, models, results, history, args, frame, eval_log, stdout, session>>

SpecSweep == InitSweep /\ [][FindBestThresholdCall]_vars

\* evaluate_model_metrics(y, y_pred) is about to be called on two binary
\* vectors of the same length.
InitMetrics ==
    /\ pc = "evaluate_model_metrics"
    /\ processed_df = <<>>
    /\ random_stream = NoStream
    /\ \E n \in 1..MaxRows :
        args \in [y : [1..n -> Labels], y_pred : [1..n -> Labels]]
    /\ ret = <<>>
    /\ Idle

EvaluateMetricsCall ==
    /\ pc = "evaluate_model_metrics"
    /\ ret' = <<evaluate_model_metrics(args.y, args.y_pred)>>
    /\ pc' = "returned"
    /\ UNCHANGED <<loop_i, processed_df, partitions, models, results, history, args, frame, eval_log, stdout, session>>

SpecMetrics == InitMetrics /\ [][EvaluateMetricsCall]_vars

\* split_data_train_val_test is about to be called on a processed dataset of
\* NumPartitions to MaxRows rows.
InitSplit ==
    /\ pc = "split"
    /\ \E n \in NumPartitions..MaxRows : processed_df \in [1..n -> Labels]
    /\ random_stream = NoStream
    /\ args = <<>> /\ ret = <<>>
    /\ Idle

SpecSplit == InitSplit /\ [][SplitCell]_vars

\* ------------------------------------------ a call, statement by statement
\* A metric name that is no key of the metrics dictionary.
UnknownMetric == "roc_auc"
MetricInputs == MetricNames \cup {UnknownMetric}

\* The thresholds at which the library raises inside
\* evaluate_model_with_threshold, an input of the call: none, or one value.
RaisingInputs == {{}} \cup {{t} : t \in ThresholdInputs}

\* evaluate_model_with_threshold(model, X, y, threshold) raises: the
\* classifier is not fitted, or the library fails at this threshold.
Raises(model, threshold, raising) == ~model.fitted \/ threshold \in raising

\* The models, data and failures a call is made with.
CallInputs(n) ==
    [model_name : {"model"}, model : ModelInputs(n) \cup {Unfitted}, X : {1..n},
     y : [1..n -> Labels], metric : MetricInputs, raising : RaisingInputs]

\* find_best_threshold(model, X, y, metric, thresholds) and
\* evaluate_model_with_threshold_params(model_name, model, X, y, metric=metric,
\* threshold=threshold) with threshold None or a number.
FindBestThresholdArgs(c, thresholds) ==
    [fn |-> "find_best_threshold", model_name |-> c.model_name, model |-> c.model, X |-> c.X, y |-> c.y, metric |-> c.metric, raising |-> c.raising, thresholds |-> thresholds]
ParamsArgs(c, threshold) ==
    [fn |-> "evaluate_model_with_threshold_params", model_name |-> c.model_name, model |-> c.model, X |-> c.X, y |-> c.y, metric |-> c.metric, raising |-> c.raising, training_split |-> "default", threshold |-> threshold]

InitCall ==
    /\ pc = "call"
    /\ processed_df = <<>>
    /\ random_stream = NoStream
    /\ \E n \in 1..MaxSweepRows : \E c \in CallInputs(n) :
        \/ \E thresholds \in GridInputs : args = FindBestThresholdArgs(c, thresholds)
        \/ \E t \in ThresholdInputs : args = ParamsArgs(c, Some(t))
        \/ args = ParamsArgs(c, None)
    /\ ret = <<>>
    /\ Idle

\* The locals of find_best_threshold before the loop (lines 474-476).
LoopStart(thresholds) == [thresholds |-> thresholds, i |-> 1, loop |-> SweepStart]

\* find_best_threshold is entered with the arguments of the call.
EnterFindBestThreshold ==
    /\ pc = "call"
    /\ args.fn = "find_best_threshold"
    /\ frame' = LoopStart(args.thresholds)
    /\ pc' = "loop"
    /\ UNCHANGED <<loop_i, processed_df, partitions, models, results, history, args, ret, eval_log, stdout, session>>

\* evaluate_model_with_threshold_params is entered: `if not threshold` calls
\* find_best_threshold(model, X, y, metric=metric), its grid the default.
EnterParams ==
    /\ pc = "call"
    /\ args.fn = "evaluate_model_with_threshold_params"
    /\ IF Falsy(args.threshold)
       THEN frame' = LoopStart(thresholds_default) /\ pc' = "loop"
       ELSE frame' = [threshold |-> args.threshold[1]] /\ pc' = "evaluate"
    /\ UNCHANGED <<loop_i, processed_df, partitions, models, results, history, args, ret, eval_log, stdout, session>>

\* One iteration of `for threshold in thresholds` (lines 478-485): the call
\* of evaluate_model_with_threshold or the lookup metrics[metric] may raise.
LoopIterationSwallowsError ==
    /\ pc = "loop"
    /\ frame.i <= Len(frame.thresholds)
    /\ LET threshold == frame.thresholds[frame.i]
       IN  /\ eval_log' = Append(eval_log, threshold)
           /\ IF Raises(args.model, threshold, args.raising) \/ args.metric \notin MetricNames
              THEN frame' = [frame EXCEPT !.i = @ + 1]
              ELSE frame' = [frame EXCEPT !.i = @ + 1, !.loop = SweepStep(args.model, args.X, args.y, args.metric, threshold, @)]
    /\ pc' = pc
    /\ UNCHANGED <<loop_i, processed_df, partitions, models, results, history, args, ret, stdout, session>>
LoopIteration ==
    /\ pc = "loop"
    /\ frame.i <= Len(frame.thresholds)
    /\ LET threshold == frame.thresholds[frame.i]
       IN  /\ eval_log' = Append(eval_log, threshold)
           /\ IF Raises(args.model, threshold, args.raising) \/ args.metric \notin MetricNames
              THEN pc' = "raised" /\ UNCHANGED frame
              ELSE /\ pc' = pc
                   /\ frame' = [frame EXCEPT !.i = @ + 1, !.loop = SweepStep(args.model, args.X, args.y, args.metric, threshold, @)]
    /\ UNCHANGED <<loop_i, processed_df, partitions, models, results, history, args, ret, stdout, session>>

\* The line find_best_threshold prints.
BestThresholdLine(metric, s) ==
    [metric |-> metric, best_threshold |-> s.best_threshold, score |-> s.best_metric_value]

\* The loop is over (lines 487-489): the line is printed and best_threshold,
\* metric_values are returned, to the caller of the call or to
\* evaluate_model_with_threshold_params, which keeps best_threshold (line 611).
LoopExitKeepsLast ==
    /\ pc = "loop"
    /\ frame.i > Len(frame.thresholds)
    /\ stdout' = Append(stdout, BestThresholdLine(args.metric, frame.loop))
    /\ IF args.fn = "find_best_threshold"
       THEN /\ ret' = <<[best_threshold |-> frame.loop.best_threshold, metric_values |-> frame.loop.metric_values]>>
            /\ pc' = "returned"
            /\ UNCHANGED frame
       ELSE /\ frame' = [threshold |-> frame.thresholds[Len(frame.thresholds)]]
            /\ pc' = "evaluate"
            /\ UNCHANGED ret
    /\ UNCHANGED <<loop_i, processed_df, partitions, models, results, history, args, eval_log, session>>
LoopExit ==
    /\ pc = "loop"
    /\ frame.i > Len(frame.thresholds)
    /\ stdout' = Append(stdout, BestThresholdLine(args.metric, frame.loop))
    /\ IF args.fn = "find_best_threshold"
       THEN /\ ret' = <<[best_threshold |-> frame.loop.best_threshold, metric_values |-> frame.loop.metric_values]>>
            /\ pc' = "returned"
            /\ UNCHANGED frame
       ELSE /\ frame' = [threshold |-> frame.loop.best_threshold]
            /\ pc' = "evaluate"
            /\ UNCHANGED ret
    /\ UNCHANGED <<loop_i, processed_df, partitions, models, results, history, args, eval_log, session>>

\* metrics = evaluate_model_with_threshold(model, X, y, threshold=threshold),
\* then the two keys are set and the dictionary is returned (lines 612-615).
ParamsEvaluate ==
    /\ pc = "evaluate"
    /\ eval_log' = Append(eval_log, frame.threshold)
    /\ IF Raises(args.model, frame.threshold, args.raising)
       THEN pc' = "raised" /\ UNCHANGED ret
       ELSE /\ ret' = <<Record(evaluate_model_with_threshold(args.model, args.X, args.y, frame.threshold), args.model_name, args.training_split)>>
            /\ pc' = "returned"
    /\ UNCHANGED <<loop_i, processed_df, partitions, models, results, history, args, frame, stdout, session>>

NextCall ==
    \/ EnterFindBestThreshold
    \/ EnterParams
    \/ LoopIteration
    \/ LoopExit
    \/ ParamsEvaluate

SpecCall == InitCall /\ [][NextCall]_vars

\* ----------------------------------------------------- feature engineering
\* A raw booking record, reduced to the fields the derived columns are
\* computed from: the month of arrival and the market segment as written.
ArrivalMonths == 1..12
MarketSegments == {"Online", "Offline", "Corporate"}
RawRecords == [arrival_month : ArrivalMonths, market_segment_type : MarketSegments]

\* The derived columns of one record: the quarter of the year of the arrival
\* month, and the market segment in its normalized spelling.
QuarterOf(month) == ((month - 1) \div 3) + 1
Normalized(segment) ==
    CASE segment = "Online"    -> "online"
      [] segment = "Offline"   -> "offline"
      [] segment = "Corporate" -> "corporate"
DerivedColumns(record) ==
    [quarter |-> QuarterOf(record.arrival_month),
     market_segment |-> Normalized(record.market_segment_type)]

\* add_engineered_features(df): every record with its derived columns.
add_engineered_features(df) ==
    [i \in DOMAIN df |-> [raw |-> df[i], derived |-> DerivedColumns(df[i])]]

\* original_df is loaded; add_engineered_features(original_df) is next.
InitFeatures ==
    /\ pc = "add_engineered_features"
    /\ processed_df = <<>>
    /\ random_stream = NoStream
    /\ \E n \in 1..MaxBookings : args \in [df : [1..n -> RawRecords]]
    /\ ret = <<>>
    /\ Idle

\* engineered_df = add_engineered_features(original_df), and the same call
\* once more: the results are kept in the order of the calls.
AddEngineeredFeaturesInPlace ==
    /\ pc \in {"add_engineered_features", "add_engineered_features_again"}
    /\ ret' = Append(ret, add_engineered_features(args.df))
    /\ args' = [df |-> [i \in DOMAIN args.df |-> [args.df[i] EXCEPT !.arrival_month = QuarterOf(@)]]]
    /\ pc' = IF pc = "add_engineered_features" THEN "add_engineered_features_again" ELSE "returned"
    /\ UNCHANGED <<loop_i, processed_df, partitions, models, results, history, frame, eval_log, stdout, session>>
AddEngineeredFeaturesCall ==
    /\ pc \in {"add_engineered_features", "add_engineered_features_again"}
    /\ ret' = Append(ret, add_engineered_features(args.df))
    /\ pc' = IF pc = "add_engineered_features" THEN "add_engineered_features_again" ELSE "returned"
    /\ UNCHANGED <<loop_i, processed_df, partitions, models, results, history, args, frame, eval_log, stdout, session>>

SpecFeatures == InitFeatures /\ [][AddEngineeredFeaturesCall]_vars

\* ----------------------------------------------------------------- claims
\* The metric the call of find_best_threshold in args asked for, at threshold t.
MetricAt(t) ==
    MetricOf(evaluate_model_with_threshold(args.model, args.X, args.y, t), args.metric)

SweepReturned == pc = "returned" /\ Len(args.thresholds) > 0
SomeGridMetricPositive ==
    \E i \in DOMAIN args.thresholds : Greater(MetricAt(args.thresholds[i]), Zero)
ReturnedGridMaximizer ==
    /\ ret[1].best_threshold \in Range(args.thresholds)
    /\ \A i \in DOMAIN args.thresholds :
        GreaterEq(MetricAt(ret[1].best_threshold), MetricAt(args.thresholds[i]))

\* C1 as stated: for every non-empty grid and every metric, the threshold
\* find_best_threshold returns is a member of the grid and its metric value
\* is at least the metric value at every threshold of the grid.
C1_ReturnsGridMaximizer == SweepReturned => ReturnedGridMaximizer

\* C1 amended: the returned threshold is a member of the grid maximizing the
\* metric whenever some threshold of the grid has a metric value above 0;
\* when the metric is 0 at every threshold of the grid, the default 0.5 is
\* returned, a maximizer only if the grid holds it.
C1_ReturnsGridMaximizerOrDefault ==
    SweepReturned =>
        IF SomeGridMetricPositive
        THEN ReturnedGridMaximizer
        ELSE /\ ret[1].best_threshold = DefaultThreshold
             /\ (DefaultThreshold \in Range(args.thresholds) => ReturnedGridMaximizer)

\* A sweep returned the second threshold of its grid, strictly better than
\* the first, whose metric value is above 0 too.
C1_Witness ==
    /\ SweepReturned
    /\ Len(args.thresholds) = 2
    /\ ret[1].best_threshold = args.thresholds[2]
    /\ Greater(MetricAt(args.thresholds[2]), MetricAt(args.thresholds[1]))
    /\ Greater(MetricAt(args.thresholds[1]), Zero)

\* C2 as stated: no leakage between splits: every fit is given the training
\* partition, every sweep (a direct call of find_best_threshold or one made
\* by evaluate_model_with_threshold_params) is given the validation
\* partition, and the test partition is scored only at a threshold passed to
\* the call, never at one a sweep over the test partition chose.
C2_NoTestLeakage ==
    /\ \A i \in DOMAIN fit_log : fit_log[i].X = X_train /\ fit_log[i].y = y_train
    /\ \A i \in DOMAIN sweep_log : sweep_log[i].part = "validation"
    /\ \A i \in DOMAIN params_log : params_log[i].part = "test" => ~params_log[i].swept

\* The names of the six classifiers of the two dictionaries.
ModelNames == Range(DefaultModelNames) \cup Range(FineTunedModelNames)
FitsOf(name) == {i \in DOMAIN fit_log : fit_log[i].model_name = name}
TrainingRecordsOf(name, split) ==
    {i \in DOMAIN models_training_results :
        /\ models_training_results[i].model_name = name
        /\ models_training_results[i].split = split}

\* C3: every classifier of default_models and fine_tuned_models is fitted on
\* (X_train, y_train) only, at most once at any point of the run and exactly
\* once when the run is done, and a fitted classifier has exactly one
\* training and one validation record in models_training_results, a
\* classifier not yet fitted none.
C3_FittedOnceOnTrainingData ==
    /\ \A i \in DOMAIN fit_log : fit_log[i].X = X_train /\ fit_log[i].y = y_train
    /\ \A name \in ModelNames :
        /\ Cardinality(FitsOf(name)) = (IF ModelOf(name).fitted THEN 1 ELSE 0)
        /\ Cardinality(TrainingRecordsOf(name, "training")) = Cardinality(FitsOf(name))
        /\ Cardinality(TrainingRecordsOf(name, "validation")) = Cardinality(FitsOf(name))
        /\ pc = "done" => ModelOf(name).fitted

\* The run is done, all six classifiers fitted, on a training partition
\* that differs from the validation and test partitions.
C3_Witness ==
    /\ pc = "done"
    /\ Len(fit_log) = 6
    /\ \A name \in ModelNames : ModelOf(name).fitted
    /\ X_train # {} /\ X_train # X_val /\ X_train # X_test

SplitReturned == pc = "init_results"

\* C4: the split partitions the rows: train, validation and test are
\* pairwise disjoint and every row of the processed dataset is in one of
\* them, with its label.
C4_SplitIsPartition ==
    SplitReturned =>
        /\ X_train \cap X_val = {}
        /\ X_train \cap X_test = {}
        /\ X_val \cap X_test = {}
        /\ X_train \cup X_val \cup X_test = DOMAIN processed_df
        /\ y_train = LabelsOf(processed_df, X_train)
        /\ y_val = LabelsOf(processed_df, X_val)
        /\ y_test = LabelsOf(processed_df, X_test)

\* A dataset of MaxRows rows was split into three partitions of two rows or
\* more.
C4_Witness ==
    /\ SplitReturned
    /\ Cardinality(DOMAIN processed_df) = MaxRows
    /\ Cardinality(X_train) >= 2 /\ Cardinality(X_val) >= 2 /\ Cardinality(X_test) >= 2

\* |positives of partition X - proportional share of the dataset's positives|
\* is below one row: scaled by the number of rows N to stay in the integers.
Abs(x) == IF x < 0 THEN -x ELSE x
WithinOneRow(X) ==
    LET N == Cardinality(DOMAIN processed_df)
        P == Cardinality(Positives(processed_df, DOMAIN processed_df))
    IN  Abs(Cardinality(Positives(processed_df, X)) * N - Cardinality(X) * P) < N

\* C5: the split preserves the label ratio: in each partition the number of
\* positives differs from the partition's proportional share of the
\* dataset's positives by less than one row.
C5_SplitPreservesLabelRatio ==
    SplitReturned => WithinOneRow(X_train) /\ WithinOneRow(X_val) /\ WithinOneRow(X_test)

\* A dataset with both labels was split, and the proportional share of a
\* partition is no whole number of rows.
C5_Witness ==
    /\ SplitReturned
    /\ \E r \in DOMAIN processed_df : processed_df[r] = 1
    /\ \E r \in DOMAIN processed_df : processed_df[r] = 0
    /\ LET N == Cardinality(DOMAIN processed_df)
           P == Cardinality(Positives(processed_df, DOMAIN processed_df))
       IN  /\ (Cardinality(X_val) * P) % N # 0
           /\ (Cardinality(X_train) * P) % N # 0
           /\ Cardinality(Positives(processed_df, X_train)) > 0

\* C6: the partitions are created once and are immutable afterward:
\* split_data_train_val_test is called exactly once, and no step after the
\* split changes X_train, X_val, X_test, y_train, y_val or y_test.
C6_PartitionsImmutable ==
    /\ [](split_calls = (IF pc = "split" THEN 0 ELSE 1))
    /\ [][pc # "split" => UNCHANGED partitions]_vars

\* The run is done after one split, the baseline cell included, with a
\* positive label in the training partition.
C6_Witness ==
    /\ pc = "done"
    /\ split_calls = 1
    /\ Len(baseline_records) = 4
    /\ \E r \in X_train : y_train[r] = 1

\* The four cells of the confusion matrix of the vectors in args.
TP == Cardinality({r \in DOMAIN args.y : args.y[r] = 1 /\ args.y_pred[r] = 1})
FP == Cardinality({r \in DOMAIN args.y : args.y[r] = 0 /\ args.y_pred[r] = 1})
FN == Cardinality({r \in DOMAIN args.y : args.y[r] = 1 /\ args.y_pred[r] = 0})
TN == Cardinality({r \in DOMAIN args.y : args.y[r] = 0 /\ args.y_pred[r] = 0})

\* The fraction v is n / d, and 0 when d is 0.
IsRatio(v, n, d) ==
    /\ v[2] > 0
    /\ IF d = 0 THEN v[1] = 0 ELSE v[1] * d = n * v[2]

\* C7: evaluate_model_metrics returns the hand-computed confusion-matrix
\* values: precision TP/(TP+FP), recall TP/(TP+FN), f1_score
\* 2TP/(2TP+FP+FN), accuracy (TP+TN)/N, the first three 0 when their
\* denominator is 0.
C7_MetricsMatchConfusionMatrix ==
    pc = "returned" =>
        /\ IsRatio(ret[1].precision, TP, TP + FP)
        /\ IsRatio(ret[1].recall, TP, TP + FN)
        /\ IsRatio(ret[1].f1_score, 2 * TP, 2 * TP + FP + FN)
        /\ IsRatio(ret[1].accuracy, TP + TN, TP + FP + FN + TN)

\* The metrics were returned for vectors with every cell of the confusion
\* matrix filled, more false positives than false negatives.
C7_Witness ==
    /\ pc = "returned"
    /\ TP > 0 /\ TN > 0 /\ FN > 0 /\ FP > FN

\* The records the run has produced, each with the partition its metrics
\* were computed on.
ProducedRecords ==
    {[record |-> models_training_results[i], part |-> models_training_results[i].split] :
        i \in DOMAIN models_training_results}
    \cup {[record |-> params_log[i].record[1], part |-> params_log[i].part] :
            i \in {j \in DOMAIN params_log : params_log[j].fitted}}

\* C8 as stated: the split field of every metrics record names the partition
\* (training, validation or test) the metrics were computed on, so two
\* records of the same model computed on different partitions differ in
\* their (model_name, split) key.
C8_RecordsKeyedBySplit ==
    /\ \A e \in ProducedRecords :
        e.record.split = e.part /\ e.part \in {"training", "validation", "test"}
    /\ \A e, f \in ProducedRecords :
        (e.record.model_name = f.record.model_name /\ e.part # f.part)
            => e.record.split # f.record.split

FittedBefore(name) == \E i \in DOMAIN fit_log : fit_log[i].model_name = name

\* C9: every model passed to find_best_threshold or to
\* evaluate_model_with_threshold_params was fitted by train_model in an
\* earlier step; no call is made on a classifier that is not fitted.
C9_EvaluatedOnlyWhenFitted ==
    /\ pc # "error"
    /\ \A i \in DOMAIN sweep_log :
        sweep_log[i].fitted /\ FittedBefore(sweep_log[i].model_name)
    /\ \A i \in DOMAIN params_log :
        params_log[i].fitted /\ FittedBefore(params_log[i].model_name)

\* The run is done: the six sweep cells and the three lists of four calls
\* have run, eight of the calls sweeping.
C9_Witness ==
    /\ pc = "done"
    /\ Len(sweep_log) = 14
    /\ Len(params_log) = 12

EvaluationSteps == {"sweep", "customized_val", "customized_test", "default_test"}

\* The evaluations of one model on one partition at one threshold agree, and
\* so do the sweeps of one model on one partition.
SameEvaluationSameMetrics ==
    /\ \A i, j \in DOMAIN params_log :
        (/\ params_log[i].model_name = params_log[j].model_name
         /\ params_log[i].part = params_log[j].part
         /\ params_log[i].threshold = params_log[j].threshold)
            => params_log[i].record = params_log[j].record
    /\ \A i, j \in DOMAIN sweep_log :
        (/\ sweep_log[i].model_name = sweep_log[j].model_name
         /\ sweep_log[i].part = sweep_log[j].part
         /\ sweep_log[i].metric = sweep_log[j].metric)
            => /\ sweep_log[i].best_threshold = sweep_log[j].best_threshold
               /\ sweep_log[i].best_metric_value = sweep_log[j].best_metric_value

EvaluationStepKeepsModelAndData ==
    pc \in EvaluationSteps => (UNCHANGED models /\ UNCHANGED partitions)

\* C10: find_best_threshold and evaluate_model_with_threshold_params leave
\* the fitted models and the partitions unchanged, and evaluating the same
\* model on the same partition at the same threshold returns the same
\* metrics whatever sweeps and evaluations were made in between.
C10_EvaluationLeavesModelAndData ==
    /\ []SameEvaluationSameMetrics
    /\ [][EvaluationStepKeepsModelAndData]_vars

\* A model was evaluated twice on the test partition at the same threshold,
\* with a sweep of another model in between, and swept twice on the
\* validation partition.
C10_Witness ==
    /\ pc = "done"
    /\ \E i, j \in DOMAIN params_log :
        /\ j >= i + 4
        /\ params_log[i].model_name = params_log[j].model_name
        /\ params_log[i].part = "test" /\ params_log[j].part = "test"
        /\ params_log[i].threshold = params_log[j].threshold
        /\ params_log[i].swept /\ ~params_log[j].swept
    /\ \E i, j \in DOMAIN sweep_log :
        /\ i < j
        /\ sweep_log[i].model_name = sweep_log[j].model_name
        /\ sweep_log[i].part = "validation" /\ sweep_log[j].part = "validation"

\* The call in args sweeps, and the grid its sweep runs over.
CallSweeps == args.fn = "find_best_threshold" \/ Falsy(args.threshold)
CallGrid == IF args.fn = "find_best_threshold" THEN args.thresholds ELSE thresholds_default

\* The positions of the grid at which an iteration of the sweep fails, and
\* the first of them.
FailsAt(threshold) == Raises(args.model, threshold, args.raising) \/ args.metric \notin MetricNames
FailingPositions == {i \in DOMAIN CallGrid : FailsAt(CallGrid[i])}
FirstFailure == CHOOSE i \in FailingPositions : \A j \in FailingPositions : i <= j

\* C11: failures propagate and halt the call, without recovery or retry: if
\* evaluate_model_with_threshold fails at a threshold of the grid, or the
\* metric asked for is no key of the metrics, find_best_threshold raises at
\* the first such threshold, evaluates no later one, prints no line and
\* returns nothing, and evaluate_model_with_threshold_params returns no
\* record either; nor does it when its own evaluation fails.
C11_FailurePropagates ==
    /\ (CallSweeps /\ FailingPositions # {}) =>
        /\ pc \notin {"returned", "evaluate"}
        /\ ret = <<>>
        /\ stdout = <<>>
        /\ eval_log = SubSeq(CallGrid, 1, Len(eval_log))
        /\ Len(eval_log) <= FirstFailure
        /\ (pc = "raised" <=> Len(eval_log) = FirstFailure)
    /\ (~CallSweeps /\ Raises(args.model, args.threshold[1], args.raising)) =>
        /\ pc # "returned"
        /\ ret = <<>>
    /\ pc = "raised" => ret = <<>>

\* evaluate_model_with_threshold_params swept with a fitted model and a
\* known metric, six thresholds were evaluated, and the library failed at
\* the seventh: the call raised.
C11_Witness ==
    /\ pc = "raised"
    /\ args.fn = "evaluate_model_with_threshold_params"
    /\ args.threshold = None
    /\ args.model.fitted
    /\ args.metric \in MetricNames
    /\ Len(eval_log) = 7
    /\ Len(frame.loop.metric_values) = 6

C14_OneEvaluationPerThreshold ==
    args.fn = "find_best_threshold" =>
        /\ pc = "loop" =>
            /\ eval_log = SubSeq(args.thresholds, 1, frame.i - 1)
            /\ Len(frame.loop.metric_values) = frame.i - 1
        /\ pc = "returned" =>
            /\ eval_log = args.thresholds
            /\ Len(ret[1].metric_values) = Len(args.thresholds)
            /\ \A i \in DOMAIN args.thresholds :
                ret[1].metric_values[i] = <<args.thresholds[i], MetricAt(args.thresholds[i])>>

\* A call returned for a descending grid of two thresholds, the metric lower
\* at the second than at the first.
C14_Witness ==
    /\ pc = "returned"
    /\ args.fn = "find_best_threshold"
    /\ Len(args.thresholds) = 2
    /\ args.thresholds[1] > args.thresholds[2]
    /\ Greater(MetricAt(args.thresholds[1]), MetricAt(args.thresholds[2]))
    /\ Len(eval_log) = 2

\* C15: the sweep runs over a fixed grid: every sweep of the run, the direct
\* calls of find_best_threshold and those made by
\* evaluate_model_with_threshold_params, runs over the default grid of 21
\* ascending thresholds 0.00, 0.05, ..., 1.00 (in percent 0, 5, ..., 100),
\* and no call changes the array bound to the parameter.
C15_SweepsUseFixedGrid ==
    /\ Len(thresholds_default) = 21
    /\ \A k \in 1..21 : thresholds_default[k] = 5 * (k - 1)
    /\ \A i \in DOMAIN sweep_log : sweep_log[i].thresholds = thresholds_default

\* The run is done after sweeps of both kinds: the six direct calls on the
\* validation partition and calls made by
\* evaluate_model_with_threshold_params on the test partition.
C15_Witness ==
    /\ pc = "done"
    /\ Len(sweep_log) > Len(SweepOrder)
    /\ \E i \in DOMAIN sweep_log : i <= Len(SweepOrder) /\ sweep_log[i].part = "validation"
    /\ \E i \in DOMAIN sweep_log : i > Len(SweepOrder) /\ sweep_log[i].part = "test"

\* C16 as stated: evaluate_model_with_threshold_params called with an
\* explicit threshold t, t = 0 included, performs no sweep (it never enters
\* the loop of find_best_threshold and prints no line), evaluates the model
\* once, at t, and returns the metrics of the model at exactly t.
C16_ExplicitThresholdNeverSweeps ==
    (args.fn = "evaluate_model_with_threshold_params" /\ args.threshold # None) =>
        /\ pc # "loop"
        /\ stdout = <<>>
        /\ pc = "returned" =>
            /\ eval_log = <<args.threshold[1]>>
            /\ ret[1] = Record(evaluate_model_with_threshold(args.model, args.X, args.y, args.threshold[1]), args.model_name, args.training_split)

\* The positions of the grid whose metric value is the largest of the grid,
\* and the first of them.
MaximalPositions ==
    {i \in DOMAIN args.thresholds :
        \A j \in DOMAIN args.thresholds :
            GreaterEq(MetricAt(args.thresholds[i]), MetricAt(args.thresholds[j]))}
FirstMaximal == CHOOSE i \in MaximalPositions : \A j \in MaximalPositions : i <= j
SeveralMaximal == pc = "returned" /\ Cardinality(MaximalPositions) > 1

\* C17 as stated: when several thresholds of the grid reach the same maximal
\* metric value, find_best_threshold returns the first of them in grid order.
C17_TiesGoToFirst ==
    SeveralMaximal => ret[1].best_threshold = args.thresholds[FirstMaximal]

\* C17 amended: when several thresholds of the grid reach the same maximal
\* metric value and that value is above 0, the first of them in grid order
\* is returned with that value as the best score; when the maximal value is
\* 0 no threshold of the grid replaces the initial one and 0.5 is returned.
C17_PositiveTiesGoToFirst ==
    SeveralMaximal =>
        IF SomeGridMetricPositive
        THEN /\ ret[1].best_threshold = args.thresholds[FirstMaximal]
             /\ ret[1].best_metric_value = MetricAt(args.thresholds[FirstMaximal])
        ELSE ret[1].best_threshold = DefaultThreshold

\* A sweep returned the first of two different thresholds that tie at a
\* metric value above 0.
C17_Witness ==
    /\ SeveralMaximal
    /\ Len(args.thresholds) = 2
    /\ args.thresholds[1] # args.thresholds[2]
    /\ Greater(MetricAt(args.thresholds[1]), Zero)
    /\ MetricAt(args.thresholds[1]) = MetricAt(args.thresholds[2])
    /\ ret[1].best_threshold = args.thresholds[1]

\* C18: if no threshold of the grid gives a metric value above 0, the empty
\* grid included, find_best_threshold returns the default threshold 0.5
\* with best score 0, whether or not 0.5 is in the grid.
C18_DefaultWhenNoPositiveMetric ==
    (pc = "returned" /\ ~SomeGridMetricPositive) =>
        /\ ret[1].best_threshold = DefaultThreshold
        /\ ret[1].best_metric_value = Zero

\* A sweep returned for a grid of two thresholds, 0.5 not among them, the
\* metric 0 at both.
C18_Witness ==
    /\ pc = "returned"
    /\ Len(args.thresholds) = 2
    /\ DefaultThreshold \notin Range(args.thresholds)
    /\ ~SomeGridMetricPositive
    /\ Len(ret[1].metric_values) = 2

Ascending(thresholds) ==
    \A i, j \in DOMAIN thresholds : i < j => thresholds[i] <= thresholds[j]

\* C19: with metric = "recall" and an ascending grid, the sweep selects the
\* first threshold of the grid whenever recall there is above 0: recall does
\* not increase as the threshold rises, so no later threshold is strictly
\* better.
C19_RecallSelectsFirstThreshold ==
    (/\ pc = "returned"
     /\ args.metric = "recall"
     /\ Len(args.thresholds) > 0
     /\ Ascending(args.thresholds)) =>
        /\ \A i, j \in DOMAIN args.thresholds :
            i < j => GreaterEq(MetricAt(args.thresholds[i]), MetricAt(args.thresholds[j]))
        /\ Greater(MetricAt(args.thresholds[1]), Zero) =>
            /\ ret[1].best_threshold = args.thresholds[1]
            /\ ret[1].best_metric_value = MetricAt(args.thresholds[1])

\* A recall sweep over the default grid returned 0.0, where recall is above
\* its value at 0.5, itself above 0.
C19_Witness ==
    /\ pc = "returned"
    /\ args.metric = "recall"
    /\ args.thresholds = DefaultGrid
    /\ ret[1].best_threshold = DefaultGrid[1]
    /\ Greater(MetricAt(DefaultGrid[1]), MetricAt(DefaultThreshold))
    /\ Greater(MetricAt(DefaultThreshold), Zero)

\* The call in args was evaluate_model_with_threshold_params without a
\* threshold, and it returned.
TunedReturned ==
    /\ pc = "returned"
    /\ args.fn = "evaluate_model_with_threshold_params"
    /\ args.threshold = None
\* The value of the metric asked for in the record returned, and in the
\* record the same call returns with threshold = 0.5.
TunedValue == MetricOf(ret[1], args.metric)
DefaultValue ==
    MetricOf(evaluate_model_with_threshold_params(args.model_name, args.model, args.X, args.y, args.training_split, args.metric, Some(DefaultThreshold)).record, args.metric)

\* C20: for the same model, data and metric, the record
\* evaluate_model_with_threshold_params returns without a threshold has a
\* value of that metric at least the value in the record returned with
\* threshold = 0.5, and equal to the best score the sweep printed.
C20_TunedAtLeastDefault ==
    TunedReturned =>
        /\ GreaterEq(TunedValue, DefaultValue)
        /\ Len(stdout) = 1
        /\ TunedValue = stdout[1].score

\* A tuned call returned a record whose recall is above the recall at 0.5,
\* itself above 0.
C20_Witness ==
    /\ TunedReturned
    /\ args.metric = "recall"
    /\ Greater(TunedValue, DefaultValue)
    /\ Greater(DefaultValue, Zero)

\* The (model_name, split) pairs of the six trained models and the two
\* constant baselines over the splits training and validation.
BaselineNames == {"always_ones", "always_zeros"}
TrainingKeys == (ModelNames \cup BaselineNames) \X {"training", "validation"}
KeyOf(record) == <<record.model_name, record.split>>

\* No (model_name, split) pair occurs twice in models_training_results, and
\* every pair is one of the sixteen.
TrainingKeysUnique ==
    /\ \A i \in DOMAIN models_training_results : KeyOf(models_training_results[i]) \in TrainingKeys
    /\ \A i, j \in DOMAIN models_training_results :
        KeyOf(models_training_results[i]) = KeyOf(models_training_results[j]) => i = j

\* When the run is done the list holds one record per pair.
AllTrainingRecords ==
    pc = "done" =>
        /\ Len(models_training_results) = 16
        /\ {KeyOf(models_training_results[i]) : i \in DOMAIN models_training_results} = TrainingKeys

\* A step keeps the records the list holds, at their positions.
AppendsToTrainingResults ==
    /\ Len(models_training_results') >= Len(models_training_results)
    /\ SubSeq(models_training_results', 1, Len(models_training_results)) = models_training_results

\* C21: after a top-to-bottom run models_training_results holds exactly 16
\* records, one per (model_name, split) pair of the 6 trained models and the
\* 2 constant baselines over training and validation, no pair occurs twice,
\* and after its creation the list is only ever appended to.
C21_SixteenTrainingRecords ==
    /\ []TrainingKeysUnique
    /\ []AllTrainingRecords
    /\ [][AppendsToTrainingResults]_vars

\* The run is done; the baseline records stand between those of the default
\* models and those of the fine-tuned models, and a model's training and
\* validation records differ in a metric.
C21_Witness ==
    /\ pc = "done"
    /\ Len(models_training_results) = 16
    /\ models_training_results[7].model_name = "always_ones"
    /\ models_training_results[11].model_name = "decision_tree_pruned"
    /\ models_training_results[11].accuracy # models_training_results[12].accuracy

====
